---- MODULE Spec2Model ----
(***************************************************************************)
(* A model of the voxel world: the Chunk and its greedy mesher             *)
(* (src/src/chunk.rs, src/src/chunk/mesh.rs, src/src/utils.rs) and the     *)
(* chunk streaming pipeline of World (src/src/world.rs).                   *)
(*                                                                         *)
(* Vectors are tuples <<x, y, z>>.  An Option is either the string "None"  *)
(* or the value itself.  Floats that only ever hold whole numbers          *)
(* (positions, sizes, normals) are integers; colours are scaled by 100.    *)
(***************************************************************************)
EXTENDS Integers, Sequences, FiniteSets, TLC

VARIABLES
    \* ---- Chunk / ChunkMesher (SpecChunk) ----
    chunk,          \* the Chunk under construction
    neighbours,     \* chunk_neighbours: grid position -> Chunk
    mesh,           \* the Mesh returned by the last greedy_mesh call
    call,           \* the last operation called and its arguments
    writes,         \* number of set_voxel calls made so far
    \* ---- World (SpecWorld) ----
    chunks,                     \* World.chunks: grid position -> Chunk
    gen_in_process,             \* chunk_generator_channel.in_process
    gen_jobs,                   \* generation threads spawned and not yet finished
    gen_chan,                   \* chunk_generator_channel: chunks sent, not yet received
    mesh_in_process,            \* chunk_meshing_channel.in_process
    mesh_jobs,                  \* meshing threads spawned and not yet finished
    mesh_chan,                  \* chunk_meshing_channel: results sent, not yet received
    chunk_solid_meshes,         \* grid position -> registered solid mesh
    chunk_transparent_meshes,   \* grid position -> registered transparent mesh
    chunk_uniforms,             \* grid position -> transform position of the uniforms
    panicked,                   \* the consumer thread has panicked
    clears,                     \* number of clear() calls made so far
    last_dispatched,            \* history: grid position -> the meshing job most
                                \* recently dispatched for it
    in_flight_at_clear,         \* history: the coordinates whose generation job was
                                \* in flight at the last clear() and is not yet received
    \* ---- the event loop of crates/app (SpecSwapchain) ----
    requested_swapchain_format, \* BaseApp.requested_swapchain_format
    is_swapchain_dirty,         \* the local of run()
    inner_size,                 \* window.inner_size() as <<width, height>>
    \* ---- Queue of crates/app (SpecQueue) ----
    queue,                      \* the Queue: [items, max_size]
    pushed,                     \* history: the values given to push so far
    queue_panicked              \* a call of push has panicked

chunkVars == <<chunk, neighbours, mesh, call, writes>>
worldVars == <<chunks, gen_in_process, gen_jobs, gen_chan, mesh_in_process, mesh_jobs,
               mesh_chan, chunk_solid_meshes, chunk_transparent_meshes, chunk_uniforms,
               panicked, clears, last_dispatched, in_flight_at_clear>>
vars == <<chunk, neighbours, mesh, call, writes,
          chunks, gen_in_process, gen_jobs, gen_chan, mesh_in_process, mesh_jobs,
          mesh_chan, chunk_solid_meshes, chunk_transparent_meshes, chunk_uniforms,
          panicked, clears, last_dispatched, in_flight_at_clear,
          requested_swapchain_format, is_swapchain_dirty, inner_size,
          queue, pushed, queue_panicked>>
appVars == <<requested_swapchain_format, is_swapchain_dirty, inner_size,
             queue, pushed, queue_panicked>>

(***************************************************************************)
(* Bounds of the model.                                                    *)
(***************************************************************************)
\* Edge length of a chunk (CHUNK_SIZE is 16 x 16 x 16 in the source).
ChunkEdge == 2
\* set_voxel calls explored on top of an initial chunk.
MaxWrites == 1
\* Neighbour chunks put into the neighbour map.
MaxNeighbours == 1

None == "None"
EmptyMap == [k \in {} |-> None]

(***************************************************************************)
(* Vectors.                                                                *)
(***************************************************************************)
VAdd(a, b) == <<a[1] + b[1], a[2] + b[2], a[3] + b[3]>>
VSub(a, b) == <<a[1] - b[1], a[2] - b[2], a[3] - b[3]>>
VMul(a, b) == <<a[1] * b[1], a[2] * b[2], a[3] * b[3]>>
VZero == <<0, 0, 0>>
\* IVec3 -> UVec3 try_into fails on a negative component.
IsUVec(a) == a[1] >= 0 /\ a[2] >= 0 /\ a[3] >= 0

(***************************************************************************)
(* Voxel.                                                                  *)
(***************************************************************************)
Voxel == {"Air", "Stone", "Grass", "Dirt", "Water", "Sand"}

VoxelColor(v) ==
    CASE v = "Air" -> <<0, 0, 0, 0>>
      [] v = "Stone" -> <<69, 72, 72, 100>>
      [] v = "Grass" -> <<23, 82, 24, 100>>
      [] v = "Dirt" -> <<63, 45, 29, 100>>
      [] v = "Water" -> <<0, 62, 100, 80>>
      [] v = "Sand" -> <<93, 89, 55, 100>>

\* A mutant of is_air: no voxel counts as air.
is_air_never(v) == FALSE

is_air(v) == v = "Air"
is_liquid(v) == v = "Water"
is_solid(v) == ~is_air(v) /\ ~is_liquid(v)

(***************************************************************************)
(* utils.rs                                                                *)
(***************************************************************************)
coord_to_index(position, size) ==
    position[1] + position[2] * size[1] + position[3] * size[1] * size[2]

index_to_coord(index, size) ==
    <<index % size[1], (index \div size[1]) % size[2], index \div (size[1] * size[2])>>

(***************************************************************************)
(* Chunk.                                                                  *)
(***************************************************************************)
CHUNK_SIZE == <<ChunkEdge, ChunkEdge, ChunkEdge>>

\* Chunk::new: the voxel vector is CHUNK_SIZE.x * CHUNK_SIZE.y * CHUNK_SIZE.z of Air.
ChunkNew(grid_position, size) ==
    [grid_position |-> grid_position,
     size |-> size,
     transform |-> [position |-> VMul(grid_position, size)],
     voxels |-> [i \in 1..(CHUNK_SIZE[1] * CHUNK_SIZE[2] * CHUNK_SIZE[3]) |-> "Air"]]

\* Vec::get(index)
VecGet(voxels, index) ==
    IF index >= 0 /\ index < Len(voxels) THEN voxels[index + 1] ELSE None

get_voxel(c, position) ==
    IF position[1] >= CHUNK_SIZE[1] \/ position[2] >= CHUNK_SIZE[2]
            \/ position[3] >= CHUNK_SIZE[3]
    THEN None
    ELSE VecGet(c.voxels, coord_to_index(position, CHUNK_SIZE))

set_voxel(c, position, voxel) ==
    LET index == coord_to_index(position, CHUNK_SIZE) IN
    IF VecGet(c.voxels, index) # None
    THEN [c EXCEPT !.voxels[index + 1] = voxel]
    ELSE c

(***************************************************************************)
(* chunk/mesh.rs                                                           *)
(***************************************************************************)
Axes == <<"X", "Y", "Z">>
Directions == <<"Positive", "Negative">>

get_normal(axis, direction) ==
    LET s == IF direction = "Positive" THEN 1 ELSE -1 IN
    CASE axis = "X" -> <<s, 0, 0>>
      [] axis = "Y" -> <<0, s, 0>>
      [] axis = "Z" -> <<0, 0, s>>

MeshNew == [vertices |-> <<>>, indices |-> <<>>]

mesh_is_empty(m) == m.vertices = <<>> \/ m.indices = <<>>

add_quad(m, p1, p2, p3, p4, normal, color) ==
    LET start_index == Len(m.vertices)
        V(p) == [position |-> p, normal |-> normal, color |-> color]
    IN [vertices |-> m.vertices \o <<V(p1), V(p2), V(p3), V(p4)>>,
        indices |-> m.indices \o <<start_index, start_index + 1, start_index + 2,
                                   start_index, start_index + 2, start_index + 3>>]

add_face(m, position, size, axis, direction, color) ==
    LET px == position[1]
        py == position[2]
        pz == position[3]
        sx == size[1]
        sy == size[2]
        vertices ==
            CASE axis = "X" /\ direction = "Positive" ->
                    <<<<px, py, pz + sy>>, <<px, py + sx, pz + sy>>,
                      <<px, py + sx, pz>>, <<px, py, pz>>>>
              [] axis = "X" /\ direction = "Negative" ->
                    <<<<px, py, pz>>, <<px, py + sx, pz>>,
                      <<px, py + sx, pz + sy>>, <<px, py, pz + sy>>>>
              [] axis = "Y" /\ direction = "Positive" ->
                    <<<<px, py, pz>>, <<px + sx, py, pz>>,
                      <<px + sx, py, pz + sy>>, <<px, py, pz + sy>>>>
              [] axis = "Y" /\ direction = "Negative" ->
                    <<<<px, py, pz>>, <<px, py, pz + sy>>,
                      <<px + sx, py, pz + sy>>, <<px + sx, py, pz>>>>
              [] axis = "Z" /\ direction = "Positive" ->
                    <<<<px, py, pz>>, <<px, py + sy, pz>>,
                      <<px + sx, py + sy, pz>>, <<px + sx, py, pz>>>>
              [] axis = "Z" /\ direction = "Negative" ->
                    <<<<px, py, pz>>, <<px + sx, py, pz>>,
                      <<px + sx, py + sy, pz>>, <<px, py + sy, pz>>>>
    IN add_quad(m, vertices[1], vertices[2], vertices[3], vertices[4],
                get_normal(axis, direction), color)

(***************************************************************************)
(* ChunkMesher::greedy_mesh                                                *)
(***************************************************************************)
\* The cell at in-plane offset (w, h) from position, on the plane of axis.
RectCell(axis, position, w, h) ==
    CASE axis = "X" -> <<position[1], position[2] + w, position[3] + h>>
      [] axis = "Y" -> <<position[1] + w, position[2], position[3] + h>>
      [] axis = "Z" -> <<position[1] + w, position[2] + h, position[3]>>

plane_dimensions(c, axis) ==
    CASE axis = "X" -> <<c.size[2], c.size[3]>>
      [] axis = "Y" -> <<c.size[1], c.size[3]>>
      [] axis = "Z" -> <<c.size[1], c.size[2]>>

PlaneOf(axis, position) ==
    CASE axis = "X" -> <<position[2], position[3]>>
      [] axis = "Y" -> <<position[1], position[3]>>
      [] axis = "Z" -> <<position[1], position[2]>>

\* A mutant of has_neigbour: an absent neighbour chunk counts as a covering neighbour.
has_neigbour_absent_covers(c, chunk_neighbours, voxel_position, axis, direction) ==
    LET neighbour_chunk_position == VAdd(c.grid_position, get_normal(axis, direction))
        a == CASE axis = "X" -> 1 [] axis = "Y" -> 2 [] axis = "Z" -> 3
        edge == IF direction = "Positive" THEN 0 ELSE c.size[a] - 1
    IN
    IF IsUVec(neighbour_chunk_position)
            /\ neighbour_chunk_position \in DOMAIN chunk_neighbours
    THEN LET neighbour_voxel ==
                get_voxel(chunk_neighbours[neighbour_chunk_position],
                          [voxel_position EXCEPT ![a] = edge])
         IN neighbour_voxel # None /\ ~is_air(neighbour_voxel)
    ELSE TRUE

\* ChunkMesher::has_neigbour with the condition |v| !v.is_air() of both call sites:
\* TRUE iff the neighbour chunk is in the map and its cell on the opposite edge is
\* not air.
has_neigbour(c, chunk_neighbours, voxel_position, axis, direction) ==
    LET neighbour_chunk_position == VAdd(c.grid_position, get_normal(axis, direction)) IN
    IF IsUVec(neighbour_chunk_position)
            /\ neighbour_chunk_position \in DOMAIN chunk_neighbours
    THEN LET neighbour_position ==
                CASE axis = "X" /\ direction = "Positive" ->
                        <<0, voxel_position[2], voxel_position[3]>>
                  [] axis = "X" /\ direction = "Negative" ->
                        <<c.size[1] - 1, voxel_position[2], voxel_position[3]>>
                  [] axis = "Y" /\ direction = "Positive" ->
                        <<voxel_position[1], 0, voxel_position[3]>>
                  [] axis = "Y" /\ direction = "Negative" ->
                        <<voxel_position[1], c.size[2] - 1, voxel_position[3]>>
                  [] axis = "Z" /\ direction = "Positive" ->
                        <<voxel_position[1], voxel_position[2], 0>>
                  [] axis = "Z" /\ direction = "Negative" ->
                        <<voxel_position[1], voxel_position[2], c.size[3] - 1>>
             neighbour_voxel ==
                get_voxel(chunk_neighbours[neighbour_chunk_position], neighbour_position)
         IN neighbour_voxel # None /\ ~is_air(neighbour_voxel)
    ELSE FALSE

\* The test of lines 337-376 that skips a voxel (continue): its face in the pass
\* direction is covered.
FaceCovered(c, chunk_neighbours, position, axis, direction) ==
    LET neighbour_position == VAdd(position, get_normal(axis, direction)) IN
    IF ~IsUVec(neighbour_position)
    THEN has_neigbour(c, chunk_neighbours, position, axis, direction)
    ELSE LET neighbour_voxel == get_voxel(c, neighbour_position) IN
         IF neighbour_voxel # None
         THEN ~is_air(neighbour_voxel)
         ELSE has_neigbour(c, chunk_neighbours, position, axis, direction)

\* A mutant of GrowStops: the growth does not stop at a visited cell.
GrowStops_ignores_visited(c, visited, voxel, next_position) ==
    LET next_voxel == get_voxel(c, next_position) IN
    next_voxel = None \/ next_voxel # voxel

\* The test of lines 392-394 and 411-413 that stops the growth at next_position.
GrowStops(c, visited, voxel, next_position) ==
    LET next_voxel == get_voxel(c, next_position) IN
    next_position \in visited \/ next_voxel = None \/ next_voxel # voxel

\* A mutant of GrowFirst: the rectangle is never extended along the first axis.
GrowFirst_none(c, visited, voxel, axis, position, sx) == sx

\* The loop of lines 384-400: size.x after extending along the first in-plane axis.
RECURSIVE GrowFirst(_, _, _, _, _, _)
GrowFirst(c, visited, voxel, axis, position, sx) ==
    IF PlaneOf(axis, position)[1] + sx < plane_dimensions(c, axis)[1]
    THEN IF GrowStops(c, visited, voxel, RectCell(axis, position, sx, 0))
         THEN sx
         ELSE GrowFirst(c, visited, voxel, axis, position, sx + 1)
    ELSE sx

\* A mutant of GrowSecond: a row is added when its first cell passes the test, the
\* rest of the row is not looked at.
RECURSIVE GrowSecond_first_cell_only(_, _, _, _, _, _, _)
GrowSecond_first_cell_only(c, visited, voxel, axis, position, sx, sy) ==
    IF PlaneOf(axis, position)[2] + sy < plane_dimensions(c, axis)[2]
    THEN IF GrowStops(c, visited, voxel, RectCell(axis, position, 0, sy))
         THEN sy
         ELSE GrowSecond_first_cell_only(c, visited, voxel, axis, position, sx, sy + 1)
    ELSE sy

\* The loop of lines 402-419: size.y after extending along the second in-plane axis,
\* one whole row of size.x cells at a time.
RECURSIVE GrowSecond(_, _, _, _, _, _, _)
GrowSecond(c, visited, voxel, axis, position, sx, sy) ==
    IF PlaneOf(axis, position)[2] + sy < plane_dimensions(c, axis)[2]
    THEN IF \E w \in 0..(sx - 1) :
                GrowStops(c, visited, voxel, RectCell(axis, position, w, sy))
         THEN sy
         ELSE GrowSecond(c, visited, voxel, axis, position, sx, sy + 1)
    ELSE sy

\* A mutant of SweepPosition: the loops nest z outermost, x innermost.
SweepPosition_z_outer(c, k) ==
    <<k % c.size[1], (k \div c.size[1]) % c.size[2], k \div (c.size[1] * c.size[2])>>

\* The k-th position (from 0) of the nested loops over x, y, z of lines 324-327.
SweepPosition(c, k) ==
    <<k \div (c.size[2] * c.size[3]), (k \div c.size[3]) % c.size[2], k % c.size[3]>>

\* A mutant of FacePosition: the face is put at the base of the seed cell in
\* both directions.
FacePosition_at_base(position, axis, direction) == position

\* The position handed to add_face (lines 422-426): the far face of the seed cell
\* for Positive, its base for Negative.
FacePosition(position, axis, direction) ==
    VAdd(position, IF direction = "Positive"
                   THEN get_normal(axis, direction) ELSE VZero)

\* One pass of greedy_mesh (one axis and direction) from the k-th position on:
\* the add_face calls it makes, in order, as <<position, size, axis, direction, color>>.
RECURSIVE SweepFrom(_, _, _, _, _, _, _)
SweepFrom(c, chunk_neighbours, axis, direction, k, visited, faces) ==
    IF k >= c.size[1] * c.size[2] * c.size[3]
    THEN faces
    ELSE
        LET position == SweepPosition(c, k)
            voxel == get_voxel(c, position)
        IN
        IF position \in visited \/ voxel = None
        THEN SweepFrom(c, chunk_neighbours, axis, direction, k + 1, visited, faces)
        ELSE IF is_air(voxel)
        THEN SweepFrom(c, chunk_neighbours, axis, direction, k + 1, visited, faces)
        ELSE IF FaceCovered(c, chunk_neighbours, position, axis, direction)
        THEN SweepFrom(c, chunk_neighbours, axis, direction, k + 1, visited, faces)
        ELSE
            LET sx == GrowFirst(c, visited, voxel, axis, position, 1)
                sy == GrowSecond(c, visited, voxel, axis, position, sx, 1)
                face_position == FacePosition(position, axis, direction)
                covered == {RectCell(axis, position, w, h) :
                                w \in 0..(sx - 1), h \in 0..(sy - 1)}
            IN SweepFrom(c, chunk_neighbours, axis, direction, k + 1,
                         visited \cup covered,
                         Append(faces, <<face_position, <<sx, sy>>, axis, direction,
                                         VoxelColor(voxel)>>))

\* The pass for (axis, direction): visited starts empty.
PassFaces(c, chunk_neighbours, axis, direction) ==
    SweepFrom(c, chunk_neighbours, axis, direction, 0, {}, <<>>)

\* mesh.add_face for each face of faces from the i-th on, in order.
RECURSIVE AddFaces(_, _, _)
AddFaces(m, faces, i) ==
    IF i > Len(faces)
    THEN m
    ELSE AddFaces(add_face(m, faces[i][1], faces[i][2], faces[i][3], faces[i][4],
                           faces[i][5]),
                  faces, i + 1)

\* The six passes, in the order of the loops of lines 314-315, add to one mesh.
greedy_mesh(c, chunk_neighbours) ==
    AddFaces(MeshNew,
             PassFaces(c, chunk_neighbours, "X", "Positive")
                \o PassFaces(c, chunk_neighbours, "X", "Negative")
                \o PassFaces(c, chunk_neighbours, "Y", "Positive")
                \o PassFaces(c, chunk_neighbours, "Y", "Negative")
                \o PassFaces(c, chunk_neighbours, "Z", "Positive")
                \o PassFaces(c, chunk_neighbours, "Z", "Negative"),
             1)

Passes ==
    <<<<"X", "Positive">>, <<"X", "Negative">>, <<"Y", "Positive">>,
      <<"Y", "Negative">>, <<"Z", "Positive">>, <<"Z", "Negative">>>>

(***************************************************************************)
(* Reading the quads back out of a Mesh: quad i is vertices 4i-3 .. 4i.    *)
(***************************************************************************)
NumQuads(m) == Len(m.vertices) \div 4

MinOf(S) == CHOOSE a \in S : \A b \in S : a <= b
MaxOf(S) == CHOOSE a \in S : \A b \in S : a >= b

\* Quad i of mesh m: its lowest corner lo, highest corner hi, normal and colour.
QuadAt(m, i) ==
    LET ps == {m.vertices[j].position : j \in (4 * i - 3)..(4 * i)} IN
    [lo |-> <<MinOf({q[1] : q \in ps}), MinOf({q[2] : q \in ps}), MinOf({q[3] : q \in ps})>>,
     hi |-> <<MaxOf({q[1] : q \in ps}), MaxOf({q[2] : q \in ps}), MaxOf({q[3] : q \in ps})>>,
     normal |-> m.vertices[4 * i - 3].normal,
     color |-> m.vertices[4 * i - 3].color]

AxisIndex(axis) == CASE axis = "X" -> 1 [] axis = "Y" -> 2 [] axis = "Z" -> 3

Cells(size) == (0..(size[1] - 1)) \X (0..(size[2] - 1)) \X (0..(size[3] - 1))

\* The voxel cells whose face in the direction of q.normal the quad q covers.
QuadCells(q, size) ==
    LET a == CHOOSE i \in 1..3 : q.normal[i] # 0
        layer == IF q.normal[a] > 0 THEN q.lo[a] - 1 ELSE q.lo[a]
    IN {p \in Cells(size) :
            /\ p[a] = layer
            /\ \A u \in (1..3) \ {a} : q.lo[u] <= p[u] /\ p[u] < q.hi[u]}

\* The quads of m facing (axis, direction).
QuadsFacing(m, axis, direction) ==
    {i \in 1..NumQuads(m) : QuadAt(m, i).normal = get_normal(axis, direction)}

\* Cell p has its face towards (axis, direction) covered by a quad of m.
FaceEmitted(m, size, p, axis, direction) ==
    \E i \in QuadsFacing(m, axis, direction) : p \in QuadCells(QuadAt(m, i), size)

(***************************************************************************)
(* SpecChunk: a chunk is built (Chunk::new, set_voxel), neighbour chunks   *)
(* are put into the neighbour map, and greedy_mesh is called on them.      *)
(***************************************************************************)
\* Voxel values the inputs are drawn from.
TestVoxels == {"Air", "Stone", "Water"}

\* Grid position of the chunk under test: on the x = 0 border of the unsigned grid,
\* so that its -X neighbour position is not representable as UVec3 and the other
\* five are.
TestGrids == {<<0, 1, 1>>}

\* Positions handed to set_voxel: every cell and one step past each edge.
TestPositions == (0..ChunkEdge) \X (0..ChunkEdge) \X (0..ChunkEdge)

\* A chunk as a generator pass leaves it: Chunk::new, then set_voxel(p, v) on every
\* cell p of the lowest h layers.
Layered(grid_position, h, v) ==
    LET c == ChunkNew(grid_position, CHUNK_SIZE) IN
    [c EXCEPT !.voxels =
        [i \in 1..Len(c.voxels) |->
            IF index_to_coord(i - 1, CHUNK_SIZE)[2] < h THEN v ELSE "Air"]]

NoCall == [op |-> "new", position |-> VZero, voxel |-> "Air"]

\* FrameStats::MAX_LOG_SIZE (1000 in the source), scaled down.
MAX_LOG_SIZE == 2

\* Queue::new(max_size): an empty Vec and the bound.
QueueNew(max_size) == [items |-> <<>>, max_size |-> max_size]

\* The event loop of crates/app before run(): no format requested, swapchain
\* clean, a window of non-zero size, the frame log empty.
AppIdle ==
    /\ requested_swapchain_format = None
    /\ is_swapchain_dirty = FALSE
    /\ inner_size = <<1, 1>>
    /\ queue = QueueNew(MAX_LOG_SIZE)
    /\ pushed = <<>>
    /\ queue_panicked = FALSE

WorldIdle ==
    /\ chunks = EmptyMap
    /\ gen_in_process = {}
    /\ gen_jobs = <<>>
    /\ gen_chan = <<>>
    /\ mesh_in_process = {}
    /\ mesh_jobs = <<>>
    /\ mesh_chan = <<>>
    /\ chunk_solid_meshes = EmptyMap
    /\ chunk_transparent_meshes = EmptyMap
    /\ chunk_uniforms = EmptyMap
    /\ panicked = FALSE
    /\ clears = 0
    /\ last_dispatched = EmptyMap
    /\ in_flight_at_clear = {}

ChunkInit ==
    /\ chunk \in {Layered(g, h, v) :
                    g \in TestGrids, h \in 0..ChunkEdge, v \in TestVoxels \ {"Air"}}
    /\ neighbours = EmptyMap
    /\ mesh = MeshNew
    /\ call = NoCall
    /\ writes = 0
    /\ WorldIdle
    /\ AppIdle

Building == call.op # "greedy_mesh"

\* chunk.set_voxel(position, voxel)
SetVoxel ==
    /\ Building
    /\ writes < MaxWrites
    /\ \E position \in TestPositions, voxel \in TestVoxels :
        /\ chunk' = set_voxel(chunk, position, voxel)
        /\ call' = [op |-> "set_voxel", position |-> position, voxel |-> voxel]
    /\ writes' = writes + 1
    /\ UNCHANGED <<neighbours, mesh>>
    /\ UNCHANGED <<worldVars, appVars>>

\* chunk_neighbours.insert(position, neighbour) for a face neighbour of the chunk
InsertNeighbour ==
    /\ Building
    /\ Cardinality(DOMAIN neighbours) < MaxNeighbours
    /\ \E i \in 1..Len(Passes), h \in 0..ChunkEdge, v \in TestVoxels \ {"Air"} :
        LET position == VAdd(chunk.grid_position, get_normal(Passes[i][1], Passes[i][2])) IN
        /\ IsUVec(position)
        /\ position \notin DOMAIN neighbours
        /\ neighbours' = [q \in DOMAIN neighbours \cup {position} |->
                            IF q = position THEN Layered(position, h, v)
                            ELSE neighbours[q]]
        /\ call' = [op |-> "insert_neighbour", position |-> position, voxel |-> v]
    /\ UNCHANGED <<chunk, mesh, writes>>
    /\ UNCHANGED <<worldVars, appVars>>

\* neighbour.set_voxel(position, voxel) on a chunk of the neighbour map
SetNeighbourVoxel ==
    /\ Building
    /\ writes < MaxWrites
    /\ \E n \in DOMAIN neighbours, position \in Cells(CHUNK_SIZE), voxel \in TestVoxels :
        /\ neighbours' = [neighbours EXCEPT ![n] = set_voxel(@, position, voxel)]
        /\ call' = [op |-> "neighbour_set_voxel", position |-> position, voxel |-> voxel]
    /\ writes' = writes + 1
    /\ UNCHANGED <<chunk, mesh>>
    /\ UNCHANGED <<worldVars, appVars>>

\* mesh = ChunkMesher::greedy_mesh(&chunk, &chunk_neighbours)
GreedyMesh ==
    /\ Building
    /\ mesh' = greedy_mesh(chunk, neighbours)
    /\ call' = [op |-> "greedy_mesh", position |-> VZero, voxel |-> "Air"]
    /\ UNCHANGED <<chunk, neighbours, writes>>
    /\ UNCHANGED <<worldVars, appVars>>

ChunkNext == SetVoxel \/ InsertNeighbour \/ SetNeighbourVoxel \/ GreedyMesh

SpecChunk == ChunkInit /\ [][ChunkNext]_vars

(***************************************************************************)
(* generation.rs: generate_chunk.  The noise module is an external         *)
(* collaborator: options name the terrain heights it yields and the value  *)
(* of sea_level_voxels().                                                  *)
(***************************************************************************)
\* The terrain height the noise module yields for the world column (wx, wz).
TerrainHeight(options, wx, wz) ==
    CASE options.terrain = "shore" -> IF wx % ChunkEdge = 0 THEN -1 ELSE ChunkEdge - 1

\* The generation options update() is called with: a shore whose sea fills the
\* chunks of height 0, over ground, under air.
WorldOptions ==
    {[terrain |-> "shore", sea_level_voxels |-> ChunkEdge - 1,
      dirt_layer_thickness |-> 1, chunk_size |-> CHUNK_SIZE]}

\* The voxel generate_chunk writes at height global_y of a column of terrain height
\* terrain_height (Air: no set_voxel call).
GeneratedVoxel(options, global_y, terrain_height) ==
    IF global_y = terrain_height
    THEN IF global_y <= options.sea_level_voxels THEN "Sand" ELSE "Grass"
    ELSE IF global_y >= terrain_height - options.dirt_layer_thickness
                /\ global_y < terrain_height
    THEN IF global_y <= options.sea_level_voxels THEN "Sand" ELSE "Dirt"
    ELSE IF global_y < terrain_height
    THEN "Stone"
    ELSE IF global_y <= options.sea_level_voxels
    THEN "Water"
    ELSE "Air"

generate_chunk(options, grid_position) ==
    LET c == ChunkNew(grid_position, options.chunk_size)
        world_position == VMul(grid_position, options.chunk_size)
    IN [c EXCEPT !.voxels =
            [i \in 1..Len(c.voxels) |->
                LET p == index_to_coord(i - 1, options.chunk_size) IN
                GeneratedVoxel(options,
                               options.chunk_size[2] * grid_position[2] + p[2],
                               TerrainHeight(options, world_position[1] + p[1],
                                             world_position[3] + p[3]))]]

(***************************************************************************)
(* Chunk::is_empty and Chunk::mesh, the two-mesh mesher World calls: their *)
(* code is not in the source files; they follow the specification (4.2).   *)
(***************************************************************************)
chunk_is_empty(c) == \A i \in 1..Len(c.voxels) : is_air(c.voxels[i])

\* The predicate pairs: "solid" meshes solid voxels against non-solid ones,
\* "transparent" meshes liquid voxels against air.
should_mesh(kind, v) == IF kind = "solid" THEN is_solid(v) ELSE is_liquid(v)
is_open(kind, v) == IF kind = "solid" THEN ~is_solid(v) ELSE is_air(v)

\* The face of position towards (axis, direction) is not a surface: the adjacent
\* cell is not open, or lies in a neighbour chunk that is not in the map.
MeshFaceCovered(kind, c, chunk_neighbours, position, axis, direction) ==
    LET q == VAdd(position, get_normal(axis, direction))
        a == CASE axis = "X" -> 1 [] axis = "Y" -> 2 [] axis = "Z" -> 3
        n == VAdd(c.grid_position, get_normal(axis, direction))
    IN
    IF 0 <= q[a] /\ q[a] < c.size[a]
    THEN ~is_open(kind, get_voxel(c, q))
    ELSE IF n \in DOMAIN chunk_neighbours
    THEN ~is_open(kind, get_voxel(chunk_neighbours[n],
                                  [position EXCEPT ![a] =
                                      IF direction = "Positive" THEN 0
                                      ELSE c.size[a] - 1]))
    ELSE TRUE

\* Option<Mesh>: None and Some(m).
NoMesh == <<>>
Some(m) == <<m>>

RECURSIVE MeshSweepFrom(_, _, _, _, _, _, _, _)
MeshSweepFrom(kind, c, chunk_neighbours, axis, direction, k, visited, faces) ==
    IF k >= c.size[1] * c.size[2] * c.size[3]
    THEN faces
    ELSE
        LET position == SweepPosition(c, k)
            voxel == get_voxel(c, position)
        IN
        IF \/ position \in visited
           \/ ~should_mesh(kind, voxel)
           \/ MeshFaceCovered(kind, c, chunk_neighbours, position, axis, direction)
        THEN MeshSweepFrom(kind, c, chunk_neighbours, axis, direction, k + 1,
                           visited, faces)
        ELSE
            LET sx == GrowFirst(c, visited, voxel, axis, position, 1)
                sy == GrowSecond(c, visited, voxel, axis, position, sx, 1)
                face_position ==
                    VAdd(position, IF direction = "Positive"
                                   THEN get_normal(axis, direction) ELSE VZero)
                covered == {RectCell(axis, position, w, h) :
                                w \in 0..(sx - 1), h \in 0..(sy - 1)}
            IN MeshSweepFrom(kind, c, chunk_neighbours, axis, direction, k + 1,
                             visited \cup covered,
                             Append(faces, <<face_position, <<sx, sy>>, axis, direction,
                                             VoxelColor(voxel)>>))

MeshKind(kind, c, chunk_neighbours) ==
    LET m == AddFaces(MeshNew,
                MeshSweepFrom(kind, c, chunk_neighbours, "X", "Positive", 0, {}, <<>>)
                 \o MeshSweepFrom(kind, c, chunk_neighbours, "X", "Negative", 0, {}, <<>>)
                 \o MeshSweepFrom(kind, c, chunk_neighbours, "Y", "Positive", 0, {}, <<>>)
                 \o MeshSweepFrom(kind, c, chunk_neighbours, "Y", "Negative", 0, {}, <<>>)
                 \o MeshSweepFrom(kind, c, chunk_neighbours, "Z", "Positive", 0, {}, <<>>)
                 \o MeshSweepFrom(kind, c, chunk_neighbours, "Z", "Negative", 0, {}, <<>>),
                1)
    IN IF mesh_is_empty(m) THEN NoMesh ELSE Some(m)

\* chunk.mesh(&neighbours): <<solid mesh option, transparent mesh option>>
chunk_mesh(c, chunk_neighbours) ==
    <<MeshKind("solid", c, chunk_neighbours), MeshKind("transparent", c, chunk_neighbours)>>

(***************************************************************************)
(* world.rs: World.                                                        *)
(***************************************************************************)
\* The render_distance given to World::new in SpecWorld.
render_distance == 0

\* clear() calls explored.
MaxClears == 1

\* The camera positions update() is called with: one in each of two chunks
\* above one another.
CameraPositions == {<<0, 0, 0>>, <<0, ChunkEdge, 0>>}

\* The integer quotient rounded towards zero.
TruncDiv(a, b) == IF a >= 0 THEN a \div b ELSE 0 - ((0 - a) \div b)

\* A mutant of center_chunk_pos: the quotient is cast without floor().
center_chunk_pos_truncates(camera_position, options) ==
    <<TruncDiv(camera_position[1], options.chunk_size[1]),
      TruncDiv(camera_position[2], options.chunk_size[2]),
      TruncDiv(camera_position[3], options.chunk_size[3])>>

\* (camera_position / chunk_size).floor().as_ivec3(), for camera positions on
\* whole voxels; the chunk size is whole, so a position between two of them has
\* the centre of the whole position below it.
center_chunk_pos(camera_position, options) ==
    <<camera_position[1] \div options.chunk_size[1],
      camera_position[2] \div options.chunk_size[2],
      camera_position[3] \div options.chunk_size[3]>>

\* The chunk positions of the loops of lines 99-108, in loop order.
CubePositions(center, distance) ==
    LET n == 2 * distance + 1 IN
    [k \in 1..(n * n * n) |->
        <<center[1] - distance + ((k - 1) \div (n * n)),
          center[2] - distance + (((k - 1) \div n) % n),
          center[3] - distance + ((k - 1) % n)>>]

\* A mutant of ShouldGenerate: the in_process set is not consulted.
ShouldGenerate_no_dedup(chunk_pos) == chunk_pos \notin DOMAIN chunks

\* The test of lines 109-110.
ShouldGenerate(chunk_pos) ==
    chunk_pos \notin DOMAIN chunks /\ chunk_pos \notin gen_in_process

\* The generation threads update() spawns (lines 112-121), in loop order.
SpawnedGenerations(center, options, distance) ==
    LET cube == CubePositions(center, distance)
        Job(k) == [grid_position |-> cube[k], options |-> options]
        RECURSIVE From(_)
        From(k) == IF k > Len(cube) THEN <<>>
                   ELSE (IF ShouldGenerate(cube[k]) THEN <<Job(k)>> ELSE <<>>)
                            \o From(k + 1)
    IN From(1)

\* World::get_neigbour_chunks against the chunk map cs.
get_neigbour_chunks(cs, chunk_position) ==
    LET positions == {VAdd(chunk_position, get_normal(Passes[i][1], Passes[i][2])) :
                        i \in 1..Len(Passes)} \cap DOMAIN cs
    IN [n \in positions |-> cs[n]]

\* The orders in which neighbours.values() can yield the neighbours of
\* get_neigbour_chunks: a HashMap iterates in an arbitrary order.
NeighbourOrders(cs, chunk_position) ==
    LET positions == DOMAIN get_neigbour_chunks(cs, chunk_position) IN
    {order \in [1..Cardinality(positions) -> positions] :
        \A i, j \in 1..Cardinality(positions) : order[i] = order[j] => i = j}

\* A mutant of mesh_chunk: the thread is given no copy of the neighbours.
mesh_chunk_without_neighbours(cs, c) ==
    [chunk |-> c, neighbours |-> EmptyMap, resident |-> c.grid_position \in DOMAIN cs]

\* World::mesh_chunk against the chunk map cs: the meshing thread it spawns, with
\* its snapshot of the chunk and of the neighbours; resident records whether the
\* chunk's position was in the chunk map at the time of the call.
mesh_chunk(cs, c) ==
    [chunk |-> c,
     neighbours |-> get_neigbour_chunks(cs, c.grid_position),
     resident |-> c.grid_position \in DOMAIN cs]

\* A mutant of OwnMeshJobs: the received chunk is meshed even when it is empty.
OwnMeshJobs_always(cs, c) == <<mesh_chunk(cs, c)>>

\* Lines 132-134: the received chunk is meshed unless it is empty.
OwnMeshJobs(cs, c) == IF ~chunk_is_empty(c) THEN <<mesh_chunk(cs, c)>> ELSE <<>>

\* Lines 136-140: every neighbour of the received chunk is meshed again.
NeighbourMeshJobs(cs, order) ==
    [i \in 1..Len(order) |-> mesh_chunk(cs, cs[order[i]])]

MapPut(f, k, v) == [q \in DOMAIN f \cup {k} |-> IF q = k THEN v ELSE f[q]]

\* Lines 186-206: a mesh of the result is registered when it is Some.
RegisterMesh(meshes, grid_position, m) ==
    IF m # NoMesh THEN MapPut(meshes, grid_position, m[1]) ELSE meshes

\* A mutant of try_recv_rest: the receive drains the channel.
try_recv_rest_drains(chan) == <<>>

\* What rx.try_recv() leaves in a channel (lines 127, 145-146): it takes the first
\* message when there is one and returns at once when there is none.
try_recv_rest(chan) == IF chan # <<>> THEN Tail(chan) ELSE chan

WorldInit ==
    /\ WorldIdle
    /\ AppIdle
    /\ chunk = ChunkNew(VZero, CHUNK_SIZE)
    /\ neighbours = EmptyMap
    /\ mesh = MeshNew
    /\ call = NoCall
    /\ writes = 0

\* The history of dispatches after mesh_chunk was called for each job of jobs, in
\* order (thread::spawn, lines 173-177): the latest job of each coordinate.
RecordDispatch(last, jobs) ==
    LET targets == {jobs[k].chunk.grid_position : k \in 1..Len(jobs)} IN
    [g \in DOMAIN last \cup targets |->
        IF g \in targets
        THEN LET ks == {k \in 1..Len(jobs) : jobs[k].chunk.grid_position = g}
             IN jobs[CHOOSE k \in ks : \A j \in ks : j <= k]
        ELSE last[g]]

\* A mutant of in_process_remove: the coordinate of a received chunk stays in
\* the in-flight set.
in_process_remove_keeps(in_process, grid_position) == in_process

\* chunk_generator_channel.in_process.remove(&chunk.grid_position), lines 128-130.
in_process_remove(in_process, grid_position) == in_process \ {grid_position}

\* World::update(camera_position, generation_options) of a World whose
\* render_distance is distance.
WorldUpdate(distance, camera_position, options) ==
    /\ \E order \in IF gen_chan # <<>>
                    THEN NeighbourOrders(chunks, Head(gen_chan).grid_position)
                    ELSE {<<>>} :
        LET spawned == SpawnedGenerations(center_chunk_pos(camera_position, options),
                                          options, distance)
            received == gen_chan # <<>>
            c == Head(gen_chan)
            chunks1 == IF received THEN MapPut(chunks, c.grid_position, c) ELSE chunks
            applied == mesh_chan # <<>>
            r == Head(mesh_chan)
        IN
        /\ gen_jobs' = gen_jobs \o spawned
        /\ gen_in_process' =
              LET inserted == gen_in_process
                                \cup {spawned[k].grid_position : k \in 1..Len(spawned)}
              IN IF received THEN in_process_remove(inserted, c.grid_position)
                 ELSE inserted
        /\ gen_chan' = try_recv_rest(gen_chan)
        /\ mesh_jobs' = IF received
                        THEN mesh_jobs \o OwnMeshJobs(chunks, c)
                                \o NeighbourMeshJobs(chunks, order)
                        ELSE mesh_jobs
        /\ last_dispatched' =
              IF received
              THEN RecordDispatch(last_dispatched,
                                  OwnMeshJobs(chunks, c) \o NeighbourMeshJobs(chunks, order))
              ELSE last_dispatched
        /\ in_flight_at_clear' =
              IF received THEN in_flight_at_clear \ {c.grid_position}
              ELSE in_flight_at_clear
        /\ chunks' = chunks1
        /\ mesh_chan' = try_recv_rest(mesh_chan)
        /\ chunk_solid_meshes' =
              IF applied THEN RegisterMesh(chunk_solid_meshes, r[1], r[2])
              ELSE chunk_solid_meshes
        /\ chunk_transparent_meshes' =
              IF applied THEN RegisterMesh(chunk_transparent_meshes, r[1], r[3])
              ELSE chunk_transparent_meshes
        \* line 208: self.chunks.get(&grid_position).unwrap()
        /\ panicked' = (applied /\ r[1] \notin DOMAIN chunks1)
        /\ chunk_uniforms' =
              IF applied /\ r[1] \in DOMAIN chunks1
              THEN MapPut(chunk_uniforms, r[1], chunks1[r[1]].transform)
              ELSE chunk_uniforms
    /\ UNCHANGED <<mesh_in_process, clears>>

\* update() is called on the World of SpecWorld.
Update ==
    /\ ~panicked
    /\ \E camera_position \in CameraPositions, options \in WorldOptions :
          WorldUpdate(render_distance, camera_position, options)
    /\ UNCHANGED <<chunkVars, appVars>>

\* The coordinate of the i-th generation job in flight: the threads still
\* running, then the chunks waiting in the channel.
GenInFlightAt(i) ==
    IF i <= Len(gen_jobs) THEN gen_jobs[i].grid_position
    ELSE gen_chan[i - Len(gen_jobs)].grid_position

\* World::clear()
Clear ==
    /\ ~panicked
    /\ clears < MaxClears
    /\ clears' = clears + 1
    /\ chunks' = EmptyMap
    /\ chunk_solid_meshes' = EmptyMap
    /\ chunk_transparent_meshes' = EmptyMap
    /\ chunk_uniforms' = EmptyMap
    /\ in_flight_at_clear' = {GenInFlightAt(i) : i \in 1..(Len(gen_jobs) + Len(gen_chan))}
    /\ UNCHANGED <<gen_in_process, gen_jobs, gen_chan, mesh_in_process, mesh_jobs,
                   mesh_chan, panicked, last_dispatched>>
    /\ UNCHANGED <<chunkVars, appVars>>

RemoveAt(seq, i) == SubSeq(seq, 1, i - 1) \o SubSeq(seq, i + 1, Len(seq))

\* A generation thread finishes (lines 116-121): it sends the generated chunk.
GenerationDone ==
    /\ ~panicked
    /\ \E i \in 1..Len(gen_jobs) :
        /\ gen_jobs' = RemoveAt(gen_jobs, i)
        /\ gen_chan' = Append(gen_chan,
                              generate_chunk(gen_jobs[i].options, gen_jobs[i].grid_position))
    /\ UNCHANGED <<chunks, gen_in_process, mesh_in_process, mesh_jobs, mesh_chan,
                   chunk_solid_meshes, chunk_transparent_meshes, chunk_uniforms,
                   panicked, clears, last_dispatched, in_flight_at_clear>>
    /\ UNCHANGED <<chunkVars, appVars>>

\* A meshing thread finishes (lines 173-177): it sends the meshes of its snapshot.
MeshingDone ==
    /\ ~panicked
    /\ \E i \in 1..Len(mesh_jobs) :
        LET job == mesh_jobs[i]
            meshes == chunk_mesh(job.chunk, job.neighbours)
        IN
        /\ mesh_jobs' = RemoveAt(mesh_jobs, i)
        /\ mesh_chan' = Append(mesh_chan,
                               <<job.chunk.grid_position, meshes[1], meshes[2]>>)
    /\ UNCHANGED <<chunks, gen_in_process, gen_jobs, gen_chan, mesh_in_process,
                   chunk_solid_meshes, chunk_transparent_meshes, chunk_uniforms,
                   panicked, clears, last_dispatched, in_flight_at_clear>>
    /\ UNCHANGED <<chunkVars, appVars>>

WorldNext == Update \/ Clear \/ GenerationDone \/ MeshingDone

SpecWorld == WorldInit /\ [][WorldNext]_vars

\* SpecWorld with workers that finish their jobs and a driver that keeps calling
\* update(): a spawned thread runs to its send, and the frame loop calls update()
\* as long as the process lives.
\* The last conjunct is WF_vars(MeshingDone) with ENABLED <<MeshingDone>>_vars
\* written out: a meshing thread can finish whenever one is running.
MeshingDoneEnabled == ~panicked /\ mesh_jobs # <<>>

SpecWorldFair ==
    /\ SpecWorld
    /\ WF_vars(Update)
    /\ WF_vars(GenerationDone)
    /\ ([]<>(~MeshingDoneEnabled) \/ []<><<MeshingDone>>_vars)

(***************************************************************************)
(* SpecDispatch: update() on a World of any render distance, called with   *)
(* the camera on either side of the origin, while few generation threads   *)
(* finish and no meshing thread does.                                      *)
(***************************************************************************)
\* The largest render_distance given to World::new.
MaxRenderDistance == 1

\* The generation threads that finish in SpecDispatch.
MaxGenerated == 1

\* The camera positions update() is called with in SpecDispatch.
FocusPositions ==
    {<<-1, -1, -1>>, <<ChunkEdge - 1, 0, 0>>,
     <<0 - ChunkEdge - 1, 0 - ChunkEdge, ChunkEdge>>}

\* World::new(window, render_distance)
DispatchInit ==
    /\ WorldIdle
    /\ AppIdle
    /\ chunk = ChunkNew(VZero, CHUNK_SIZE)
    /\ neighbours = EmptyMap
    /\ mesh = MeshNew
    /\ writes = 0
    /\ \E distance \in 0..MaxRenderDistance :
          call = [op |-> "World::new", render_distance |-> distance]

\* World::update(camera_position, generation_options); call records the call.
DispatchUpdate ==
    /\ ~panicked
    /\ \E camera_position \in FocusPositions, options \in WorldOptions :
        /\ WorldUpdate(call.render_distance, camera_position, options)
        /\ call' = [op |-> "update", render_distance |-> call.render_distance,
                    camera_position |-> camera_position, options |-> options]
    /\ UNCHANGED <<chunk, neighbours, mesh, writes>>
    /\ UNCHANGED appVars

\* One of the first MaxGenerated generation threads to finish does.
DispatchGenerationDone ==
    /\ Cardinality(DOMAIN chunks) + Len(gen_chan) < MaxGenerated
    /\ GenerationDone

DispatchNext == DispatchUpdate \/ DispatchGenerationDone

SpecDispatch == DispatchInit /\ [][DispatchNext]_vars

(***************************************************************************)
(* SpecFlatten: chunks of any size are created and coord_to_index and      *)
(* index_to_coord are called with their size.                              *)
(***************************************************************************)
\* The largest edge length of a chunk size given to Chunk::new.
MaxSize == 3

\* The sizes given to Chunk::new, non-cubic ones among them.
Sizes == (1..MaxSize) \X (1..MaxSize) \X (1..MaxSize)

\* Chunk::new(grid_position, size)
FlattenInit ==
    /\ WorldIdle
    /\ AppIdle
    /\ neighbours = EmptyMap
    /\ mesh = MeshNew
    /\ writes = 0
    /\ \E size \in Sizes :
        /\ chunk = ChunkNew(VZero, size)
        /\ call = [op |-> "new", position |-> VZero, index |-> 0]

\* coord_to_index(position, chunk.size) for a position in range of the size
CoordToIndex ==
    /\ \E position \in Cells(chunk.size) :
          call' = [op |-> "coord_to_index", position |-> position,
                   index |-> coord_to_index(position, chunk.size)]
    /\ UNCHANGED <<chunk, neighbours, mesh, writes>>
    /\ UNCHANGED <<worldVars, appVars>>

\* index_to_coord(index, chunk.size) for an index below the product of the size
IndexToCoord ==
    /\ \E index \in 0..(chunk.size[1] * chunk.size[2] * chunk.size[3] - 1) :
          call' = [op |-> "index_to_coord", index |-> index,
                   position |-> index_to_coord(index, chunk.size)]
    /\ UNCHANGED <<chunk, neighbours, mesh, writes>>
    /\ UNCHANGED <<worldVars, appVars>>

FlattenNext == CoordToIndex \/ IndexToCoord

SpecFlatten == FlattenInit /\ [][FlattenNext]_vars

(***************************************************************************)
(* SpecSwapchain: the event loop of run() in crates/app/src/lib.rs, as far *)
(* as the swapchain is concerned.  call records the last event handled and *)
(* the arguments of the recreate_swapchain call it made, if any.  The      *)
(* frame statistics that draw() ticks are a separate object (SpecQueue).   *)
(***************************************************************************)
\* The surface formats a user app asks for.
Formats == {"B8G8R8A8_UNORM", "B8G8R8A8_SRGB", "R8G8B8A8_SRGB"}

\* The sizes the window takes; <<0, 0>> is the minimised window.
WindowSizes == {<<0, 0>>, <<0, 1>>, <<1, 0>>, <<1, 1>>, <<2, 1>>}

\* No recreate_swapchain call was made.
NotCalled == <<>>

\* Option::take(): the value taken and what is left in the option.
take(option) == [taken |-> option, left |-> None]

\* BaseApp::request_swapchain_format_change(format)
request_swapchain_format_change(format) == format

\* BaseApp::draw as far as the swapchain is concerned, from the pending request
\* left by the handler: the <<requested_swapchain_format, is_swapchain_dirty>>
\* it can leave.  Acquiring the image may fail with ERROR_OUT_OF_DATE_KHR
\* before the user app's update() runs; update() may request a format; the
\* present may report a suboptimal or out-of-date swapchain.
DrawOutcomes(pending) ==
    {<<pending, TRUE>>}
        \cup {<<request, dirty>> :
                request \in {pending}
                    \cup {request_swapchain_format_change(f) : f \in Formats},
                dirty \in BOOLEAN}

\* run() up to the first event: A::new(&mut base_app) may request a format.
SwapchainInit ==
    /\ WorldIdle
    /\ chunk = ChunkNew(VZero, CHUNK_SIZE)
    /\ neighbours = EmptyMap
    /\ mesh = MeshNew
    /\ writes = 0
    /\ queue = QueueNew(MAX_LOG_SIZE)
    /\ pushed = <<>>
    /\ queue_panicked = FALSE
    /\ is_swapchain_dirty = FALSE
    /\ inner_size \in {size \in WindowSizes : size[1] > 0 /\ size[2] > 0}
    /\ requested_swapchain_format \in {None} \cup Formats
    /\ call = [op |-> "run", recreate_swapchain |-> NotCalled]

\* Event::WindowEvent WindowEvent::Resized (lines 565-567); the window has its
\* new size from then on.
Resized ==
    /\ \E size \in WindowSizes \ {inner_size} : inner_size' = size
    /\ is_swapchain_dirty' = TRUE
    /\ call' = [op |-> "Resized", recreate_swapchain |-> NotCalled]
    /\ UNCHANGED <<requested_swapchain_format, queue, pushed, queue_panicked>>
    /\ UNCHANGED <<chunk, neighbours, mesh, writes>>
    /\ UNCHANGED worldVars

\* Event::AboutToWait (lines 581-604).
AboutToWait ==
    LET entered == is_swapchain_dirty \/ requested_swapchain_format # None
        dimensions == inner_size
        format == take(requested_swapchain_format)
        pending == IF entered THEN format.left ELSE requested_swapchain_format
    IN
    /\ IF entered /\ ~(dimensions[1] > 0 /\ dimensions[2] > 0)
       THEN \* return
            /\ requested_swapchain_format' = pending
            /\ is_swapchain_dirty' = is_swapchain_dirty
            /\ call' = [op |-> "AboutToWait", recreate_swapchain |-> NotCalled]
       ELSE /\ call' = [op |-> "AboutToWait",
                        recreate_swapchain |->
                            IF entered
                            THEN <<dimensions[1], dimensions[2], format.taken>>
                            ELSE NotCalled]
            /\ \E outcome \in DrawOutcomes(pending) :
                /\ requested_swapchain_format' = outcome[1]
                /\ is_swapchain_dirty' = outcome[2]
    /\ UNCHANGED <<inner_size, queue, pushed, queue_panicked>>
    /\ UNCHANGED <<chunk, neighbours, mesh, writes>>
    /\ UNCHANGED worldVars

SwapchainNext == Resized \/ AboutToWait

SpecSwapchain == SwapchainInit /\ [][SwapchainNext]_vars

(***************************************************************************)
(* SpecQueue: a Queue (crates/app/src/utils.rs) is created with any        *)
(* max_size and values are pushed.                                         *)
(***************************************************************************)
\* The largest max_size a Queue is created with.
MaxQueueSize == 2

\* The largest number of push calls.
MaxPushes == 5

\* The values pushed.
QueueValues == {1, 2}

\* Vec::remove(0): panics on an empty Vec (index out of bounds), shifts the
\* rest down otherwise.
VecRemoveFirst(items) ==
    [panics |-> items = <<>>,
     items |-> IF items = <<>> THEN items ELSE Tail(items)]

\* Queue::push(value): whether the call panics, and the Queue after it.
QueuePush(q, value) ==
    LET removed == IF Len(q.items) = q.max_size THEN VecRemoveFirst(q.items)
                   ELSE [panics |-> FALSE, items |-> q.items]
    IN [panics |-> removed.panics,
        queue |-> IF removed.panics THEN q
                  ELSE [q EXCEPT !.items = Append(removed.items, value)]]

\* Queue::new(max_size)
QueueInit ==
    /\ WorldIdle
    /\ chunk = ChunkNew(VZero, CHUNK_SIZE)
    /\ neighbours = EmptyMap
    /\ mesh = MeshNew
    /\ writes = 0
    /\ requested_swapchain_format = None
    /\ is_swapchain_dirty = FALSE
    /\ inner_size = <<1, 1>>
    /\ pushed = <<>>
    /\ queue_panicked = FALSE
    /\ \E max_size \in 0..MaxQueueSize :
        /\ queue = QueueNew(max_size)
        /\ call = [op |-> "new", max_size |-> max_size]

\* queue.push(value)
Push ==
    /\ ~queue_panicked
    /\ Len(pushed) < MaxPushes
    /\ \E value \in QueueValues :
        /\ pushed' = Append(pushed, value)
        /\ call' = [op |-> "push", value |-> value]
        /\ queue_panicked' = QueuePush(queue, value).panics
        /\ queue' = QueuePush(queue, value).queue
    /\ UNCHANGED <<requested_swapchain_format, is_swapchain_dirty, inner_size>>
    /\ UNCHANGED <<chunk, neighbours, mesh, writes>>
    /\ UNCHANGED worldVars

QueueNext == Push

SpecQueue == QueueInit /\ [][QueueNext]_vars

(***************************************************************************)
(* Properties of Chunk and greedy_mesh (SpecChunk).                        *)
(***************************************************************************)
Meshed == call.op = "greedy_mesh"

InRange(p, size) ==
    /\ 0 <= p[1] /\ p[1] < size[1]
    /\ 0 <= p[2] /\ p[2] < size[2]
    /\ 0 <= p[3] /\ p[3] < size[3]

\* The voxel stored for the in-range cell p of chunk c (x fastest, then y, then z).
VoxelAt(c, p) == c.voxels[p[1] + p[2] * c.size[1] + p[3] * c.size[1] * c.size[2] + 1]

\* Cell p lies on the face of the chunk towards (axis, direction).
OnBoundary(c, p, axis, direction) ==
    IF direction = "Positive"
    THEN p[AxisIndex(axis)] = c.size[AxisIndex(axis)] - 1
    ELSE p[AxisIndex(axis)] = 0

\* The chunk's neighbour towards (axis, direction) is in the neighbour map.
NeighbourPresent(c, nbrs, axis, direction) ==
    LET n == VAdd(c.grid_position, get_normal(axis, direction)) IN
    IsUVec(n) /\ n \in DOMAIN nbrs

\* The cell of the neighbour towards (axis, direction) that touches boundary cell p:
\* on the opposite edge, the other two coordinates unchanged.
OppositeCell(c, p, axis, direction) ==
    [p EXCEPT ![AxisIndex(axis)] =
        IF direction = "Positive" THEN 0 ELSE c.size[AxisIndex(axis)] - 1]

NeighbourVoxel(c, nbrs, p, axis, direction) ==
    VoxelAt(nbrs[VAdd(c.grid_position, get_normal(axis, direction))],
            OppositeCell(c, p, axis, direction))

AllVoxels(c, v) == \A i \in 1..Len(c.voxels) : c.voxels[i] = v

C8_SetVoxelOutOfRangeIsNoOp ==
    [][(call'.op = "set_voxel" /\ ~InRange(call'.position, chunk.size))
            => chunk'.voxels = chunk.voxels]_vars

\* C9 as stated: after greedy_mesh, for a non-air voxel on the chunk boundary whose
\* outward neighbour chunk is in the map, the boundary face is covered by a quad
\* iff the neighbour's cell on the opposite edge (other two coordinates unchanged)
\* is air.
C9_KnownNeighbourFaceIffOpen ==
    Meshed =>
        \A i \in 1..Len(Passes) : \A p \in Cells(chunk.size) :
            (/\ ~is_air(VoxelAt(chunk, p))
             /\ OnBoundary(chunk, p, Passes[i][1], Passes[i][2])
             /\ NeighbourPresent(chunk, neighbours, Passes[i][1], Passes[i][2]))
            => (FaceEmitted(mesh, chunk.size, p, Passes[i][1], Passes[i][2])
                  <=> is_air(NeighbourVoxel(chunk, neighbours, p,
                                            Passes[i][1], Passes[i][2])))

\* The face of cell p towards (axis, direction) is exposed: the adjacent cell, in
\* the chunk or on the opposite edge of the neighbour present in the map, is air.
Exposed(c, nbrs, p, axis, direction) ==
    LET q == VAdd(p, get_normal(axis, direction)) IN
    IF InRange(q, c.size)
    THEN is_air(VoxelAt(c, q))
    ELSE /\ NeighbourPresent(c, nbrs, axis, direction)
         /\ is_air(NeighbourVoxel(c, nbrs, p, axis, direction))

\* The w x h cells of the layer of p0 across axis, from p0 on.
SlabCells(axis, p0, w, h) ==
    {RectCell(axis, p0, i, j) : i \in 0..(w - 1), j \in 0..(h - 1)}

\* The cells of R form a slab of one non-air voxel value, every cell exposed towards
\* (axis, direction), and no cell of the chunk next to R in its layer holds that
\* value.
IsExposedSlab(c, nbrs, R, axis, direction) ==
    /\ R \subseteq Cells(c.size)
    /\ \E v \in Voxel \ {"Air"} :
        /\ \A p \in R : VoxelAt(c, p) = v
        /\ \A p \in R :
             \A q \in {RectCell(axis, p, 1, 0), RectCell(axis, p, -1, 0),
                       RectCell(axis, p, 0, 1), RectCell(axis, p, 0, -1)} :
                (InRange(q, c.size) /\ q \notin R) => VoxelAt(c, q) # v
    /\ \A p \in R : Exposed(c, nbrs, p, axis, direction)

\* The extents of quad q along the first and second in-plane axis of axis.
QuadSize(q, axis) == PlaneOf(axis, VSub(q.hi, q.lo))

\* The pass (axis, direction) of m emits exactly one quad on the slab R, of size
\* w x h and covering exactly R.
OneQuadOn(m, c, R, axis, direction, w, h) ==
    LET on == {i \in QuadsFacing(m, axis, direction) :
                    QuadCells(QuadAt(m, i), c.size) \cap R # {}}
    IN /\ Cardinality(on) = 1
       /\ \A i \in on :
            /\ QuadCells(QuadAt(m, i), c.size) = R
            /\ QuadSize(QuadAt(m, i), axis) = <<w, h>>

\* C10: after greedy_mesh, every w x h x 1 slab of one voxel value that is fully
\* exposed towards (axis, direction) is covered, in that pass, by exactly one quad
\* of size w x h.
C10_SlabIsOneQuad ==
    Meshed =>
        \A i \in 1..Len(Passes) : \A p0 \in Cells(chunk.size) :
            \A w \in 1..ChunkEdge : \A h \in 1..ChunkEdge :
                IsExposedSlab(chunk, neighbours, SlabCells(Passes[i][1], p0, w, h),
                              Passes[i][1], Passes[i][2])
                => OneQuadOn(mesh, chunk, SlabCells(Passes[i][1], p0, w, h),
                             Passes[i][1], Passes[i][2], w, h)

\* A 2 x 2 x 1 slab of Stone, exposed towards +Y inside the chunk, has been meshed
\* into one quad.
C10_Witness ==
    /\ Meshed
    /\ \E p0 \in Cells(chunk.size) :
        /\ IsExposedSlab(chunk, neighbours, SlabCells("Y", p0, 2, 2), "Y", "Positive")
        /\ VoxelAt(chunk, p0) = "Stone"
        /\ InRange(VAdd(p0, <<0, 1, 0>>), chunk.size)
        /\ OneQuadOn(mesh, chunk, SlabCells("Y", p0, 2, 2), "Y", "Positive", 2, 2)

(***************************************************************************)
(* Properties of the World pipeline (SpecWorld).                           *)
(***************************************************************************)
\* The Option<Mesh> registered for grid_position in a mesh map.
Registered(meshes, grid_position) ==
    IF grid_position \in DOMAIN meshes THEN Some(meshes[grid_position]) ELSE NoMesh

\* The coordinate a meshing thread works for.
MeshTarget(job) == job.chunk.grid_position

\* The face neighbours of a coordinate.
FaceNeighbours(grid_position) ==
    {VAdd(grid_position, get_normal(Passes[i][1], Passes[i][2])) : i \in 1..Len(Passes)}

\* No generation or meshing job in flight, both result channels drained.
Converged ==
    /\ gen_jobs = <<>>
    /\ gen_chan = <<>>
    /\ gen_in_process = {}
    /\ mesh_jobs = <<>>
    /\ mesh_chan = <<>>
    /\ ~panicked

\* C1: once the pipeline has converged (no job in flight, channels drained) in
\* a run without clear(), the meshes registered for every resident non-empty
\* chunk are the mesher's output for that chunk against all of its resident
\* neighbours.
C1_ConvergedMeshesSeeAllNeighbours ==
    (Converged /\ clears = 0) =>
        \A c \in DOMAIN chunks :
            ~chunk_is_empty(chunks[c]) =>
                LET expected == chunk_mesh(chunks[c], get_neigbour_chunks(chunks, c)) IN
                /\ Registered(chunk_solid_meshes, c) = expected[1]
                /\ Registered(chunk_transparent_meshes, c) = expected[2]

\* The coordinates of the meshing jobs in flight: dispatched, result not yet
\* received.
MeshInFlight ==
    [i \in 1..Len(mesh_jobs) |-> MeshTarget(mesh_jobs[i])]
        \o [i \in 1..Len(mesh_chan) |-> mesh_chan[i][1]]

\* C2: at any instant at most one meshing job is in flight for a given grid
\* coordinate.
C2_OneMeshingJobPerCoordinate ==
    \A i, j \in 1..Len(MeshInFlight) :
        MeshInFlight[i] = MeshInFlight[j] => i = j

\* The coordinates of the generation jobs in flight: dispatched, chunk not yet
\* received.
GenInFlight ==
    [i \in 1..Len(gen_jobs) |-> gen_jobs[i].grid_position]
        \o [i \in 1..Len(gen_chan) |-> gen_chan[i].grid_position]

\* At most one generation job in flight per coordinate, none for a resident one.
GenerationDeduplicated ==
    /\ \A i, j \in 1..Len(GenInFlight) : GenInFlight[i] = GenInFlight[j] => i = j
    /\ \A i \in 1..Len(GenInFlight) : GenInFlight[i] \notin DOMAIN chunks

\* The generation jobs a step dispatches are for coordinates neither resident
\* nor in the in-flight set, and are put in the in-flight set.
GenerationDispatchGuarded ==
    \A k \in (Len(gen_jobs) + 1)..Len(gen_jobs') :
        /\ gen_jobs'[k].grid_position \notin DOMAIN chunks
        /\ gen_jobs'[k].grid_position \notin gen_in_process
        /\ gen_jobs'[k].grid_position \in gen_in_process'

\* C3: update() dispatches a generation job only for a coordinate that is neither
\* resident nor in the generation in-flight set, and adds it to the set; at any
\* instant at most one generation job is in flight per coordinate and none for a
\* resident coordinate.
C3_GenerationDedup ==
    [](GenerationDeduplicated) /\ [][GenerationDispatchGuarded]_vars

\* C3 witness: after a clear(), a generation job is in flight while update() has
\* been called again with a chunk resident.
C3_Witness ==
    /\ clears = 1
    /\ Len(gen_jobs) = 1
    /\ gen_jobs[1].grid_position \in gen_in_process
    /\ DOMAIN chunks # {}

\* C5: a meshing job for a coordinate is dispatched only when the chunk at that
\* coordinate is already resident, that is after its generation result has been
\* inserted.
C5_MeshingDispatchedWhenResident ==
    \A i \in 1..Len(mesh_jobs) : mesh_jobs[i].resident

\* A step of update() that applies a meshing result without panicking.
AppliesMeshResult == Len(mesh_chan') = Len(mesh_chan) - 1 /\ ~panicked'

\* C6: after update() applies the result (c, opaque, transparent), the opaque
\* mesh registered for c is exactly opaque and the transparent mesh registered
\* for c is exactly transparent.
C6_ApplyReplacesRegistrations ==
    [][AppliesMeshResult =>
        LET r == Head(mesh_chan) IN
        /\ Registered(chunk_solid_meshes', r[1]) = r[2]
        /\ Registered(chunk_transparent_meshes', r[1]) = r[3]]_vars

\* A step of update() that receives a generated chunk.
ReceivesChunk == Len(gen_chan') = Len(gen_chan) - 1

\* The number of meshing jobs for grid_position among the jobs a step dispatches.
DispatchedFor(grid_position) ==
    Cardinality({k \in (Len(mesh_jobs) + 1)..Len(mesh_jobs') :
                    MeshTarget(mesh_jobs'[k]) = grid_position})

\* C7: a received generated chunk is inserted; exactly one meshing job is
\* scheduled for its own coordinate if it is not empty and none if it is empty;
\* exactly one is scheduled for each already-resident face neighbour, and none
\* for any other coordinate.
C7_ReceivedChunkHandling ==
    [][ReceivesChunk =>
        LET c == Head(gen_chan)
            resident_neighbours == FaceNeighbours(c.grid_position) \cap DOMAIN chunks
        IN
        /\ c.grid_position \in DOMAIN chunks'
        /\ chunks'[c.grid_position] = c
        /\ DispatchedFor(c.grid_position) = IF chunk_is_empty(c) THEN 0 ELSE 1
        /\ \A n \in resident_neighbours : DispatchedFor(n) = 1
        /\ \A k \in (Len(mesh_jobs) + 1)..Len(mesh_jobs') :
              MeshTarget(mesh_jobs'[k]) \in resident_neighbours \cup {c.grid_position}]_vars

\* C7 witness: an empty chunk has been received next to a resident non-empty
\* neighbour: it is resident, the job of the neighbour is in flight and none is
\* for the empty chunk.
C7_Witness ==
    \E c \in DOMAIN chunks :
        /\ chunk_is_empty(chunks[c])
        /\ \E n \in FaceNeighbours(c) \cap DOMAIN chunks :
              /\ ~chunk_is_empty(chunks[n])
              /\ \E i \in 1..Len(mesh_jobs) : MeshTarget(mesh_jobs[i]) = n
        /\ \A i \in 1..Len(mesh_jobs) : MeshTarget(mesh_jobs[i]) # c

\* A step of update(): no clear() and no thread finishes.
UpdateStep ==
    /\ clears' = clears
    /\ Len(gen_jobs') >= Len(gen_jobs)
    /\ Len(mesh_jobs') >= Len(mesh_jobs)

\* What a call of update() may do to the channels and on behalf of each: at most
\* one message leaves each channel; with no generated chunk to receive the chunk
\* map is unchanged and no meshing job is dispatched; with no meshing result to
\* receive the registered meshes and uniforms are unchanged.
BoundedDrain ==
    UpdateStep =>
        /\ Len(gen_chan') >= Len(gen_chan) - 1
        /\ Len(mesh_chan') >= Len(mesh_chan) - 1
        /\ gen_chan = <<>> => (chunks' = chunks /\ mesh_jobs' = mesh_jobs /\ gen_chan' = <<>>)
        /\ mesh_chan = <<>> =>
              /\ chunk_solid_meshes' = chunk_solid_meshes
              /\ chunk_transparent_meshes' = chunk_transparent_meshes
              /\ chunk_uniforms' = chunk_uniforms
              /\ mesh_chan' = <<>>

\* C11: each call of update() removes at most one generated chunk and at most one
\* meshing result from the channels; when a channel is empty the call is still
\* possible and changes neither the chunk map nor the registered meshes on behalf
\* of that channel.
C11_BoundedNonBlockingDrain ==
    [](~panicked => ENABLED Update) /\ [][BoundedDrain]_vars

\* C11 witness: update() has received one of two generated chunks, the other is
\* still in the channel, and no meshing result is there to receive.
C11_Witness ==
    /\ clears = 0
    /\ Cardinality(DOMAIN chunks) = 1
    /\ Len(gen_chan) = 1
    /\ gen_jobs = <<>>
    /\ mesh_chan = <<>>

\* The grid coordinates the cubes of SpecDispatch lie in.
CoordRange == (0 - MaxRenderDistance - 2)..(MaxRenderDistance + 1)

\* floor(a / b) for b > 0: the integer k with k * b <= a < (k + 1) * b.
FloorOf(a, b) == CHOOSE k \in CoordRange : k * b <= a /\ a < (k + 1) * b

Abs(n) == IF n >= 0 THEN n ELSE 0 - n

\* The grid coordinates within max-norm distance of floor(focus / chunk_size).
RenderCube(focus, size, distance) ==
    LET center == [a \in 1..3 |-> FloorOf(focus[a], size[a])] IN
    {c \in CoordRange \X CoordRange \X CoordRange :
        \A a \in 1..3 : Abs(c[a] - center[a]) <= distance}

\* What a call of update() dispatches, given the call recorded in call'.
ResidentSetComputed ==
    (call'.op = "update" /\ UpdateStep) =>
        LET distance == call'.render_distance
            cube == RenderCube(call'.camera_position, call'.options.chunk_size, distance)
            dispatched == {gen_jobs'[k].grid_position :
                              k \in (Len(gen_jobs) + 1)..Len(gen_jobs')}
        IN
        /\ Cardinality(cube) = (2 * distance + 1) * (2 * distance + 1) * (2 * distance + 1)
        /\ cube \subseteq DOMAIN chunks' \cup gen_in_process'
        /\ dispatched = {c \in cube : c \notin DOMAIN chunks /\ c \notin gen_in_process}
        /\ Len(gen_jobs') - Len(gen_jobs) = Cardinality(dispatched)

\* C12: update(focus) considers exactly the (2r+1)^3 grid coordinates within
\* max-norm distance r of floor(focus / chunk_size), the floor taken per
\* component, also of negative positions; after the call each of them is resident
\* or in the generation in-flight set, and the call dispatches no coordinate
\* outside the cube.
C12_ResidentSetComputation == [][ResidentSetComputed]_vars

\* C12 witness: update() was called with render distance 1 and the camera at
\* negative coordinates, with a chunk of its cube already resident and
\* generation jobs of the cube in flight.
C12_Witness ==
    /\ call.op = "update"
    /\ call.render_distance = 1
    /\ call.camera_position = <<-1, -1, -1>>
    /\ \E c \in DOMAIN chunks :
          c \in RenderCube(call.camera_position, call.options.chunk_size, 1)
    /\ gen_in_process # {}

\* get_voxel returns a voxel exactly at the positions in range of the chunk's
\* size, and Air everywhere in range of a chunk nothing was written to.
ReadsInRange ==
    /\ \A p \in TestPositions : (get_voxel(chunk, p) # None) <=> InRange(p, chunk.size)
    /\ \A p \in Cells(CHUNK_SIZE) :
          get_voxel(ChunkNew(chunk.grid_position, CHUNK_SIZE), p) = "Air"

\* After chunk.set_voxel(q, v), get_voxel returns v at q if q is in range and
\* what it returned before at every other position in range.
ReadsLastWritten ==
    (call'.op = "set_voxel" /\ writes' = writes + 1) =>
        \A p \in Cells(chunk.size) :
            get_voxel(chunk', p) =
                IF p = call'.position THEN call'.voxel ELSE get_voxel(chunk, p)

\* C13 as stated: get_voxel(p) returns a voxel iff p is in range on every axis of
\* the chunk's size; for p in range it returns the value last written at p by
\* set_voxel, Air if none was.
C13_GetVoxelReturnsLastWritten == [](ReadsInRange) /\ [][ReadsLastWritten]_vars

\* C14: for a chunk whose voxels are all Air the mesher emits no quad, whatever
\* neighbours are in the map and whatever they contain.
C14_AllAirMeshIsEmpty ==
    (Meshed /\ AllVoxels(chunk, "Air")) => (mesh_is_empty(mesh) /\ NumQuads(mesh) = 0)

\* C14 witness: an all-Air chunk has been meshed with a neighbour holding
\* non-air voxels in the map.
C14_Witness ==
    /\ Meshed
    /\ AllVoxels(chunk, "Air")
    /\ \E n \in DOMAIN neighbours : ~AllVoxels(neighbours[n], "Air")
    /\ mesh_is_empty(mesh)

\* The number of the pass that emits quads of the normal of q, in the order
\* X+, X-, Y+, Y-, Z+, Z-.
PassOf(q) ==
    CHOOSE i \in 1..Len(Passes) : get_normal(Passes[i][1], Passes[i][2]) = q.normal

\* The place of cell p in the sweep: x outermost, then y, z innermost.
SweepRank(p, size) == (p[1] * size[2] + p[2]) * size[3] + p[3]

\* The place in the sweep of the cell the rectangle of quad q was grown from.
SeedRank(q, size) == MinOf({SweepRank(p, size) : p \in QuadCells(q, size)})

\* Quad i of the mesh comes before quad i + 1 in pass order, and in sweep order
\* of their seeds within one pass.
InEmissionOrder(m, size) ==
    \A i \in 1..(NumQuads(m) - 1) :
        LET q == QuadAt(m, i)
            r == QuadAt(m, i + 1)
        IN \/ PassOf(q) < PassOf(r)
           \/ PassOf(q) = PassOf(r) /\ SeedRank(q, size) < SeedRank(r, size)

WorldCoords ==
    {center_chunk_pos(camera_position, options) :
        camera_position \in CameraPositions, options \in WorldOptions}

\* A meshing job for grid_position is running or its result is in the channel.
MeshPending(grid_position) ==
    \E i \in 1..Len(MeshInFlight) : MeshInFlight[i] = grid_position

\* C16: with workers that finish and update() called again and again, every
\* coordinate in the generation in-flight set eventually is resident and out of
\* the set, and the result of every meshing job dispatched for a coordinate is
\* eventually received and applied.
C16_ResultsEventuallyApplied ==
    \A c \in WorldCoords :
        /\ (c \in gen_in_process) ~> (c \in DOMAIN chunks /\ c \notin gen_in_process)
        /\ MeshPending(c) ~> (~MeshPending(c) /\ ~panicked)

\* The state the consumer owns is as before the step.
ConsumerStateUnchanged ==
    UNCHANGED <<chunks, gen_in_process, mesh_in_process, chunk_solid_meshes,
                chunk_transparent_meshes, chunk_uniforms>>

\* A meshing job dispatched in the step holds the target chunk and the resident
\* neighbours of the target as the chunk map has them before the step.
SnapshotTaken ==
    \A k \in (Len(mesh_jobs) + 1)..Len(mesh_jobs') :
        LET job == mesh_jobs'[k]
            target == MeshTarget(job)
        IN
        /\ job.neighbours = get_neigbour_chunks(chunks, target)
        /\ job.chunk = IF target \in DOMAIN chunks THEN chunks[target] ELSE Head(gen_chan)

\* A step in which no meshing thread finishes leaves the jobs in flight as they
\* were, whatever it inserts into or clears from the chunk map.
SnapshotKept ==
    Len(mesh_jobs') >= Len(mesh_jobs) =>
        SubSeq(mesh_jobs', 1, Len(mesh_jobs)) = mesh_jobs

\* A meshing thread that finishes sends the meshes of its snapshot and changes
\* nothing else; a generation thread that finishes only sends a chunk.
WorkerOnlySends ==
    /\ Len(mesh_jobs') < Len(mesh_jobs) =>
          /\ \E i \in 1..Len(mesh_jobs) :
                LET job == mesh_jobs[i]
                    meshes == chunk_mesh(job.chunk, job.neighbours)
                IN
                /\ mesh_jobs' = RemoveAt(mesh_jobs, i)
                /\ mesh_chan' = Append(mesh_chan, <<MeshTarget(job), meshes[1], meshes[2]>>)
          /\ ConsumerStateUnchanged
          /\ UNCHANGED <<gen_jobs, gen_chan>>
    /\ Len(gen_jobs') < Len(gen_jobs) =>
          /\ Len(gen_chan') = Len(gen_chan) + 1
          /\ SubSeq(gen_chan', 1, Len(gen_chan)) = gen_chan
          /\ ConsumerStateUnchanged
          /\ UNCHANGED <<mesh_jobs, mesh_chan>>

\* C17: the meshes a meshing job sends are those of the target chunk and of the
\* resident neighbours as they were at dispatch, whatever is inserted into or
\* cleared from the chunk map before the job finishes; a worker that finishes
\* changes no state of the consumer and adds one message to a result channel.
C17_SnapshotIsolation == [][SnapshotTaken /\ SnapshotKept /\ WorkerOnlySends]_vars

\* C17 witness: after a clear() a meshing job is still running for a chunk that
\* is no longer in the chunk map, and a meshing result has been sent.
C17_Witness ==
    /\ clears = 1
    /\ \E i \in 1..Len(mesh_jobs) : MeshTarget(mesh_jobs[i]) \notin DOMAIN chunks
    /\ mesh_chan # <<>>

\* The number of cells of a chunk of the given size.
Volume(size) == size[1] * size[2] * size[3]

\* coord_to_index is x + y * sizeX + z * sizeX * sizeY, lands below the volume,
\* is one-to-one on the positions in range, and index_to_coord undoes it.
CoordToIndexFlattens ==
    call.op = "coord_to_index" =>
        /\ call.index = call.position[1] + call.position[2] * chunk.size[1]
                            + call.position[3] * chunk.size[1] * chunk.size[2]
        /\ call.index \in 0..(Volume(chunk.size) - 1)
        /\ index_to_coord(call.index, chunk.size) = call.position
        /\ \A q \in Cells(chunk.size) :
              coord_to_index(q, chunk.size) = call.index => q = call.position

\* index_to_coord yields a position in range that coord_to_index maps back.
IndexToCoordInverts ==
    call.op = "index_to_coord" =>
        /\ InRange(call.position, chunk.size)
        /\ coord_to_index(call.position, chunk.size) = call.index

\* C18 as stated: a chunk stores sizeX * sizeY * sizeZ voxels; coord_to_index
\* maps a position in range to x + y * sizeX + z * sizeX * sizeY, one-to-one onto
\* 0 .. sizeX * sizeY * sizeZ - 1, and index_to_coord is its inverse, for every
\* size.
C18_FlatteningOrder ==
    /\ Len(chunk.voxels) = Volume(chunk.size)
    /\ CoordToIndexFlattens
    /\ IndexToCoordInverts

\* C19 as stated: when update() receives a generated chunk for coordinate c, the
\* meshing job it dispatches for each already-resident neighbour of c has the
\* received chunk at c in its neighbour snapshot.
C19_NeighbourRemeshSeesNewChunk ==
    [][ReceivesChunk =>
        LET c == Head(gen_chan) IN
        \A k \in (Len(mesh_jobs) + 1)..Len(mesh_jobs') :
            MeshTarget(mesh_jobs'[k]) \in FaceNeighbours(c.grid_position) \cap DOMAIN chunks =>
                /\ c.grid_position \in DOMAIN mesh_jobs'[k].neighbours
                /\ mesh_jobs'[k].neighbours[c.grid_position] = c]_vars


\* The face of cell p towards (axis, direction) is hidden: the adjacent cell, in
\* the chunk or on the opposite edge of the neighbour present in the map, is not
\* air. A boundary face whose neighbour chunk is absent is not hidden.
Hidden(c, nbrs, p, axis, direction) ==
    LET q == VAdd(p, get_normal(axis, direction)) IN
    IF InRange(q, c.size)
    THEN ~is_air(VoxelAt(c, q))
    ELSE /\ NeighbourPresent(c, nbrs, axis, direction)
         /\ ~is_air(NeighbourVoxel(c, nbrs, p, axis, direction))

\* C20 as stated: after greedy_mesh, in the pass for each direction, every cell
\* covered by an emitted quad has its face in that direction visible: the
\* adjacent cell, inside the chunk or in the neighbouring chunk at the boundary,
\* does not hide it.
C20_QuadsCoverOnlyExposedFaces ==
    Meshed =>
        \A i \in 1..Len(Passes) : \A p \in Cells(chunk.size) :
            FaceEmitted(mesh, chunk.size, p, Passes[i][1], Passes[i][2])
                => ~Hidden(chunk, neighbours, p, Passes[i][1], Passes[i][2])


\* The quads of the pass (axis, direction) that cover the face of cell p.
QuadsCovering(m, size, p, axis, direction) ==
    {i \in QuadsFacing(m, axis, direction) : p \in QuadCells(QuadAt(m, i), size)}

\* C21: after greedy_mesh, in each of the six passes every non-air cell whose
\* face in the pass direction is not hidden is covered by exactly one quad of
\* that pass, and no cell is covered by two quads of one pass.
C21_CompleteCoverageWithoutOverlap ==
    Meshed =>
        \A i \in 1..Len(Passes) : \A p \in Cells(chunk.size) :
            LET n == Cardinality(QuadsCovering(mesh, chunk.size, p,
                                               Passes[i][1], Passes[i][2]))
            IN /\ n <= 1
               /\ (/\ ~is_air(VoxelAt(chunk, p))
                   /\ ~Hidden(chunk, neighbours, p, Passes[i][1], Passes[i][2]))
                  => n = 1

\* C21 is exercised: a pass emitted two quads, one of them over more than one
\* cell, next to each other in one layer, and a non-air cell of that layer has
\* its face hidden.
C21_Witness ==
    /\ Meshed
    /\ \E i, j \in QuadsFacing(mesh, "Y", "Positive") :
        /\ i # j
        /\ Cardinality(QuadCells(QuadAt(mesh, i), chunk.size)) > 1
        /\ \E p \in QuadCells(QuadAt(mesh, i), chunk.size),
              q \in QuadCells(QuadAt(mesh, j), chunk.size) : p[2] = q[2]
    /\ \E p \in Cells(chunk.size) :
        /\ ~is_air(VoxelAt(chunk, p))
        /\ Hidden(chunk, neighbours, p, "X", "Positive")


\* The cell the rectangle of quad q was grown from: its lowest corner, in the
\* layer of cells whose face the quad covers.
SeedOf(q) ==
    LET a == CHOOSE i \in 1..3 : q.normal[i] # 0 IN
    [q.lo EXCEPT ![a] = IF q.normal[a] > 0 THEN q.lo[a] - 1 ELSE q.lo[a]]

\* The cells covered by the quads emitted before quad i in the pass of quad i.
VisitedBefore(m, size, i) ==
    UNION {QuadCells(QuadAt(m, j), size) :
            j \in {k \in 1..(i - 1) : QuadAt(m, k).normal = QuadAt(m, i).normal}}

\* The growth cannot take in cell p: out of bounds, visited, or another value
\* than v.
CannotTake(c, visited, v, p) ==
    \/ ~InRange(p, c.size)
    \/ p \in visited
    \/ VoxelAt(c, p) # v

\* C22: after greedy_mesh, every quad covers a w x h rectangle of cells inside
\* the chunk that all hold the value of the seed cell and were unvisited; w is
\* as far as the first in-plane axis could be followed from the seed (the next
\* cell is out of bounds, visited or different), and h is the number of whole
\* rows of width w that could be added along the second in-plane axis (the
\* next row has a cell that is out of bounds, visited or different).
C22_RectangleGrowthRule ==
    Meshed =>
        \A i \in 1..NumQuads(mesh) :
            LET q == QuadAt(mesh, i)
                axis == Passes[PassOf(q)][1]
                seed == SeedOf(q)
                w == QuadSize(q, axis)[1]
                h == QuadSize(q, axis)[2]
                visited == VisitedBefore(mesh, chunk.size, i)
                v == VoxelAt(chunk, seed)
            IN /\ w >= 1 /\ h >= 1
               /\ SlabCells(axis, seed, w, h) \subseteq Cells(chunk.size)
               /\ \A p \in SlabCells(axis, seed, w, h) :
                    VoxelAt(chunk, p) = v /\ p \notin visited
               /\ CannotTake(chunk, visited, v, RectCell(axis, seed, w, 0))
               /\ \E k \in 0..(w - 1) :
                    CannotTake(chunk, visited, v, RectCell(axis, seed, k, h))

\* C22 is exercised: a quad of width 2 stopped growing along the second axis at
\* a row inside the chunk whose first cell could have been taken and whose
\* second cell holds another value.
C22_Witness ==
    /\ Meshed
    /\ \E i \in 1..NumQuads(mesh) :
        LET q == QuadAt(mesh, i)
            axis == Passes[PassOf(q)][1]
            seed == SeedOf(q)
            visited == VisitedBefore(mesh, chunk.size, i)
            v == VoxelAt(chunk, seed)
        IN /\ QuadSize(q, axis) = <<2, 1>>
           /\ ~CannotTake(chunk, visited, v, RectCell(axis, seed, 0, 1))
           /\ InRange(RectCell(axis, seed, 1, 1), chunk.size)
           /\ VoxelAt(chunk, RectCell(axis, seed, 1, 1)) # v


\* The four corners of quad i of m lie in one plane across the axis of its normal.
Planar(m, i) ==
    LET q == QuadAt(m, i)
        a == CHOOSE k \in 1..3 : q.normal[k] # 0
    IN q.lo[a] = q.hi[a]

\* C23: after greedy_mesh, every quad has the outward unit normal of its pass
\* (axis, direction) and lies in one plane across axis; with Q its base position
\* minus the normal for Positive and its base position for Negative, Q is a
\* non-air cell of the chunk whose face in the pass direction is not covered,
\* the quad has the colour of the voxel at Q, and its size is the extents grown
\* from Q along the two in-plane axes. The quads come in pass order.
C23_QuadPlacement ==
    Meshed =>
        /\ \A i \in 1..NumQuads(mesh) :
            LET q == QuadAt(mesh, i)
                pass == Passes[PassOf(q)]
                Q == IF pass[2] = "Positive" THEN VSub(q.lo, q.normal) ELSE q.lo
                visited == VisitedBefore(mesh, chunk.size, i)
            IN /\ \E k \in 1..Len(Passes) :
                    q.normal = get_normal(Passes[k][1], Passes[k][2])
               /\ \A j \in (4 * i - 3)..(4 * i) :
                    /\ mesh.vertices[j].normal = q.normal
                    /\ mesh.vertices[j].color = q.color
               /\ Planar(mesh, i)
               /\ InRange(Q, chunk.size)
               /\ ~is_air(VoxelAt(chunk, Q))
               /\ ~FaceCovered(chunk, neighbours, Q, pass[1], pass[2])
               /\ q.color = VoxelColor(VoxelAt(chunk, Q))
               /\ LET sx == GrowFirst(chunk, visited, VoxelAt(chunk, Q), pass[1], Q, 1)
                      sy == GrowSecond(chunk, visited, VoxelAt(chunk, Q), pass[1], Q, sx, 1)
                  IN QuadSize(q, pass[1]) = <<sx, sy>>
        /\ \A i \in 1..(NumQuads(mesh) - 1) :
            PassOf(QuadAt(mesh, i)) <= PassOf(QuadAt(mesh, i + 1))

\* C23 is exercised: the mesh holds a quad of a Positive pass larger than one
\* cell, a quad of a Negative pass, and quads of two colours.
C23_Witness ==
    /\ Meshed
    /\ \E i \in QuadsFacing(mesh, "Y", "Positive") :
            QuadSize(QuadAt(mesh, i), "Y") # <<1, 1>>
    /\ QuadsFacing(mesh, "Z", "Negative") # {}
    /\ \E i, j \in 1..NumQuads(mesh) : QuadAt(mesh, i).color # QuadAt(mesh, j).color


\* The generation in-flight set is the set of coordinates with a generation job
\* dispatched and its chunk not yet received, and no such coordinate is resident.
InFlightSetExact ==
    /\ gen_in_process = {GenInFlight[i] : i \in 1..Len(GenInFlight)}
    /\ gen_in_process \cap DOMAIN chunks = {}

\* The update() that receives the chunk of coordinate c takes c out of the
\* in-flight set and leaves the received chunk resident at c.
ReceiptMovesToResident ==
    ReceivesChunk =>
        LET c == Head(gen_chan) IN
        /\ c.grid_position \in gen_in_process
        /\ c.grid_position \notin gen_in_process'
        /\ c.grid_position \in DOMAIN chunks'
        /\ chunks'[c.grid_position] = c

\* C24: in every reachable state the generation in-flight set is exactly the
\* set of coordinates dispatched for generation and not yet received, disjoint
\* from the resident coordinates; receiving the chunk for c removes c from the
\* set and makes c resident in the same update() call.
C24_GenerationInFlightBookkeeping ==
    [](InFlightSetExact) /\ [][ReceiptMovesToResident]_vars

\* C24 is exercised: after a clear(), one coordinate is resident again while the
\* chunk generated for another waits in the channel, in the in-flight set.
C24_Witness ==
    /\ clears = 1
    /\ DOMAIN chunks # {}
    /\ gen_chan # <<>>
    /\ Head(gen_chan).grid_position \in gen_in_process


\* C25 as stated: when update() applies a meshing result for coordinate c and
\* no other meshing job for c is in flight afterwards (all jobs dispatched for c
\* have completed and been applied), the meshes registered for c are those
\* computed from the snapshot of the job most recently dispatched for c.
C25_NoStaleOverwrite ==
    [][AppliesMeshResult =>
        LET c == Head(mesh_chan)[1]
            latest == last_dispatched'[c]
            expected == chunk_mesh(latest.chunk, latest.neighbours)
        IN (/\ \A i \in 1..Len(mesh_jobs') : MeshTarget(mesh_jobs'[i]) # c
            /\ \A i \in 1..Len(mesh_chan') : mesh_chan'[i][1] # c)
           => /\ Registered(chunk_solid_meshes', c) = expected[1]
              /\ Registered(chunk_transparent_meshes', c) = expected[2]]_vars


\* A step of update() that takes a meshing result off the channel.
TakesMeshResult == UpdateStep /\ Len(mesh_chan') = Len(mesh_chan) - 1

\* C26 as stated: whenever update() applies a meshing result for coordinate c,
\* the chunk at c is resident when prepare_chunk_for_rendering looks it up, and
\* the call does not panic.
C26_ApplyNeverFails ==
    [][TakesMeshResult =>
        /\ Head(mesh_chan)[1] \in DOMAIN chunks'
        /\ ~panicked']_vars


\* C27 as stated: the step of clear() leaves the chunk map, both mesh maps and
\* the uniforms empty, and a chunk received by a later update() is never the
\* result of a generation job that was in flight when clear() was called.
C27_ClearDiscardsOldWorld ==
    [][/\ clears' # clears =>
            /\ chunks' = EmptyMap
            /\ chunk_solid_meshes' = EmptyMap
            /\ chunk_transparent_meshes' = EmptyMap
            /\ chunk_uniforms' = EmptyMap
       /\ ReceivesChunk =>
            Head(gen_chan).grid_position \notin in_flight_at_clear]_vars


\* Every coordinate with a registered solid or transparent mesh has registered
\* uniforms, and the uniforms registered for a coordinate are those of the
\* transform of the chunk resident there, at grid coordinate times chunk size.
RenderStateConsistent ==
    /\ (DOMAIN chunk_solid_meshes \cup DOMAIN chunk_transparent_meshes)
            \subseteq DOMAIN chunk_uniforms
    /\ \A c \in DOMAIN chunk_uniforms :
        /\ c \in DOMAIN chunks
        /\ chunk_uniforms[c] = chunks[c].transform
        /\ chunk_uniforms[c].position = VMul(c, chunks[c].size)

\* The render state is consistent as long as no call of update() has panicked.
RenderStateConsistentWhileRunning == ~panicked => RenderStateConsistent

\* C28 as stated: in every reachable state every coordinate with a registered
\* solid or transparent mesh has registered uniforms, and these are the
\* uniforms of the transform of the resident chunk at that coordinate.
C28_RenderStateInvariant == RenderStateConsistent


(***************************************************************************)
(* Properties of the event loop and of Queue (SpecSwapchain, SpecQueue).   *)
(***************************************************************************)
\* The step handles an AboutToWait event.
HandlesAboutToWait == call'.op = "AboutToWait"

\* C29 as stated: at an AboutToWait event with a format f requested, f is
\* passed to recreate_swapchain if the window has non-zero width and height,
\* and the request stays pending if it has not (it is cleared only when it has
\* been applied).
C29_FormatRequestNotLost ==
    [][(HandlesAboutToWait /\ requested_swapchain_format # None) =>
        IF inner_size[1] > 0 /\ inner_size[2] > 0
        THEN call'.recreate_swapchain =
                <<inner_size[1], inner_size[2], requested_swapchain_format>>
        ELSE /\ call'.recreate_swapchain = NotCalled
             /\ requested_swapchain_format' = requested_swapchain_format]_vars

\* The last k elements of seq.
LastOf(seq, k) == SubSeq(seq, Len(seq) - k + 1, Len(seq))

Min(a, b) == IF a < b THEN a ELSE b

\* C30 as stated: after any sequence of n push calls on a Queue created with
\* max_size m >= 0 no call has panicked, the length is min(n, m), and the
\* contents are the most recently pushed min(n, m) values in push order.
C30_BoundedLogQueue ==
    /\ ~queue_panicked
    /\ Len(queue.items) = Min(Len(pushed), queue.max_size)
    /\ Len(queue.items) <= queue.max_size
    /\ queue.items = LastOf(pushed, Min(Len(pushed), queue.max_size))

\* The same for a Queue created with max_size >= 1.
BoundedLogQueueFromOne ==
    queue.max_size >= 1 =>
        /\ ~queue_panicked
        /\ Len(queue.items) = Min(Len(pushed), queue.max_size)
        /\ queue.items = LastOf(pushed, Min(Len(pushed), queue.max_size))

====
